---- MODULE Spec2Model ----
(***************************************************************************)
(* Model of the Camel trace dump stream parser (src/src/trace/DumpParser.ts)*)
(* and of the TraceManager that runs the dump process and cuts its output  *)
(* into lines (src/src/trace/TraceManager.ts).                             *)
(*                                                                         *)
(* A line of text is a sequence of tokens.  Every token stands for a fixed *)
(* piece of text (see TokLen below), so every line of the model is one    *)
(* concrete input string of DumpParser.feed:                               *)
(*   "ESC"       an ANSI colour sequence, e.g. \x1b[32m                    *)
(*   "SP"        one space                                                 *)
(*   "|"         a pipe                                                    *)
(*   "HDR"       the head of a header line up to and including the dash:   *)
(*               2025-08-14 00:45:23.093  16397 --- [ thread #7] route1 :  *)
(*               1 -                                                       *)
(*   "(...)"     a parenthesised group, no parenthesis inside              *)
(*   other       a word without whitespace                                 *)
(* The regular expressions of the source are evaluated on token sequences. *)
(***************************************************************************)
EXTENDS Integers, Sequences, FiniteSets, TLC

\* ------------------------------------------------------------------ tokens

\* Parenthesised groups: /\([^)]*\)/ matches exactly one of these tokens.
ParenTok == {"(DefaultExchange)", "(String)", "(3ms)", "(protocol=http)",
             "(bytes: 3)", "(bytes: 1)", "(size: 2)"}

\* Groups matched by /\(bytes:\s*(\d+)\)/, with the number they carry.
BytesTok == {"(bytes: 3)", "(bytes: 1)"}

BytesOf(t) == IF t = "(bytes: 3)" THEN 3 ELSE 1

\* String(n) for the byte counts of BytesTok.
NumStr(n) == IF n = 3 THEN "3" ELSE "1"

\* The text between the parentheses, trimmed.
Inner(t) ==
    CASE t = "(DefaultExchange)" -> "DefaultExchange"
      [] t = "(String)"          -> "String"
      [] t = "(3ms)"             -> "3ms"
      [] t = "(protocol=http)"   -> "protocol=http"
      [] t = "(bytes: 3)"        -> "bytes: 3"
      [] t = "(bytes: 1)"        -> "bytes: 1"
      [] t = "(size: 2)"         -> "size: 2"
      [] OTHER                   -> t

\* Tokens made of [A-Za-z0-9-] only, their length and whether they hold a dash.
\* "ID-A" stands for ID-0123456789ABCDEF-1 (21 characters), "ID-B" for
\* ID-0123456789ABCDEF-2, "x-1" for itself (3 characters).
AlnumDashTok == {"ID-A", "ID-B", "x-1", "InOnly", "Exchange", "Header", "Body",
                 "Service", "Endpoint", "Message", "Completed", "Failed",
                 "Created", "a", "k", "v", "svc"}

HasDash(t) == t \in {"ID-A", "ID-B", "x-1"}

\* Number of characters (= UTF-8 bytes, all text is ASCII) of a token.
TokLen(t) ==
    CASE t \in {"ID-A", "ID-B"}               -> 21
      [] t = "HDR"                            -> 60
      [] t = "(DefaultExchange)"              -> 17
      [] t = "(protocol=http)"                -> 15
      [] t \in {"(bytes: 3)", "(bytes: 1)"}   -> 10
      [] t \in {"(size: 2)", "Completed"}     -> 9
      [] t \in {"(String)", "Exchange", "Endpoint"} -> 8
      [] t \in {"Service", "Message", "Created"}    -> 7
      [] t \in {"Header", "InOnly", "Failed"} -> 6
      [] t \in {"ESC", "(3ms)"}               -> 5
      [] t = "Body"                           -> 4
      [] t \in {"x-1", "svc"}                 -> 3
      [] OTHER                                -> 1

RECURSIVE SeqBytes(_)
\* Buffer.byteLength(text, 'utf8') of the text of a token sequence.
SeqBytes(s) == IF s = <<>> THEN 0 ELSE TokLen(Head(s)) + SeqBytes(Tail(s))

\* ------------------------------------------------------- string helpers

RECURSIVE TrimLeft(_)
TrimLeft(s) == IF s # <<>> /\ Head(s) = "SP" THEN TrimLeft(Tail(s)) ELSE s

RECURSIVE TrimRight(_)
TrimRight(s) ==
    IF s # <<>> /\ s[Len(s)] = "SP" THEN TrimRight(SubSeq(s, 1, Len(s) - 1)) ELSE s

\* String.prototype.trim
Trim(s) == TrimRight(TrimLeft(s))

RECURSIVE SplitWs(_)
\* text.trim().split(/\s+/) without empty parts: the maximal runs of
\* non-space tokens, each run one word (a sequence of tokens).
SplitWs(s) ==
    LET t == TrimLeft(s)
    IN  IF t = <<>> THEN <<>>
        ELSE LET n == CHOOSE k \in 1..Len(t) :
                          /\ \A i \in 1..k : t[i] # "SP"
                          /\ (k = Len(t) \/ t[k + 1] = "SP")
             IN  <<SubSeq(t, 1, n)>> \o SplitWs(SubSeq(t, n + 1, Len(t)))

\* /^\s*WORD\s+/ matches s: optional spaces, the marker word, then a space.
StartsWithMarker(s, word) ==
    LET t == TrimLeft(s)
    IN  Len(t) >= 2 /\ t[1] = word /\ t[2] = "SP"

\* s with the match of /^\s*WORD\s+/ removed (s when there is no match).
AfterMarker(s, word) ==
    IF StartsWithMarker(s, word) THEN TrimLeft(Tail(TrimLeft(s))) ELSE s

\* -------------------------------------------------------- preprocessing

\* stripAnsi: every /\u001b\[[0-9;]*m/ removed.
stripAnsi(text) == SelectSeq(text, LAMBDA t : t # "ESC")

\* Index of the first pipe of s, 0 when there is none.
FirstPipe(s) ==
    IF \E i \in 1..Len(s) : s[i] = "|"
    THEN CHOOSE i \in 1..Len(s) : s[i] = "|" /\ \A j \in 1..(i - 1) : s[j] # "|"
    ELSE 0

\* preprocess: ANSI stripped, then /^[^|]*\|\s+/ removed (the text up to the
\* first pipe, the pipe, and the run of spaces that must follow it).
preprocess(line) ==
    LET noAnsi == stripAnsi(line)
        p      == FirstPipe(noAnsi)
    IN  IF p > 0 /\ p < Len(noAnsi) /\ noAnsi[p + 1] = "SP"
        THEN TrimLeft(SubSeq(noAnsi, p + 1, Len(noAnsi)))
        ELSE noAnsi

\* ------------------------------------------------------------ classifiers

\* headerRegex.exec(clean) # null: the line starts with the header head.
headerRegex(clean) == clean # <<>> /\ clean[1] = "HDR"

\* Groups 1..3 of headerRegex for the head "HDR".
HdrTimestamp == <<"2025-08-14 00:45:23.093">>

HdrNode == <<"route1">>

HdrIndex == <<"1">>

\* rawStatus.replace(/\s*\([^)]*\)\s*$/g, ''): a trailing group, e.g. (3ms),
\* is dropped together with the spaces around it.
StripDuration(raw) ==
    LET t == TrimRight(raw)
    IN  IF t # <<>> /\ t[Len(t)] \in ParenTok
        THEN TrimRight(SubSeq(t, 1, Len(t) - 1))
        ELSE raw

\* status of a header line: group 4 trimmed, duration and colours stripped.
HeaderStatus(clean) == stripAnsi(StripDuration(Trim(Tail(clean))))

\* /^(Completed|Processed)\b/i.test(status)
IsTerminalStatus(status) ==
    /\ status # <<>>
    /\ status[1] \in {"Completed", "Processed", "completed", "processed"}
    /\ (Len(status) = 1 \/ status[2] \notin AlnumDashTok)

\* token.includes('-') && /^[A-Za-z0-9-]+$/.test(token) && token.length >= 16
\* for a whitespace-delimited word (a run of tokens).
IsIdToken(word) ==
    /\ word # <<>>
    /\ \A i \in 1..Len(word) : word[i] \in AlnumDashTok
    /\ \E i \in 1..Len(word) : HasDash(word[i])
    /\ SeqBytes(word) >= 16

\* Index of the last part that looks like an exchange id, 0 when none does.
LastIdIndex(parts) ==
    IF \E i \in 1..Len(parts) : IsIdToken(parts[i])
    THEN CHOOSE i \in 1..Len(parts) :
             IsIdToken(parts[i]) /\ \A j \in (i + 1)..Len(parts) : ~IsIdToken(parts[j])
    ELSE 0

\* tryExtractExchangeId: the marker is tested on the line as given, the id
\* is searched in the preprocessed line.  <<>> stands for undefined.
tryExtractExchangeId(line) ==
    IF ~StartsWithMarker(line, "Exchange") THEN <<>>
    ELSE LET parts == SplitWs(preprocess(line))
             i     == LastIdIndex(parts)
         IN  IF i > 0 THEN parts[i] ELSE <<>>

\* Position of the first run of two or more spaces in s, 0 when none.
FirstGap(s) ==
    IF \E i \in 2..(Len(s) - 1) : s[i] = "SP" /\ s[i + 1] = "SP"
    THEN CHOOSE i \in 2..(Len(s) - 1) :
             /\ s[i] = "SP" /\ s[i + 1] = "SP"
             /\ \A j \in 2..(i - 1) : ~(s[j] = "SP" /\ s[j + 1] = "SP")
    ELSE 0

\* noAnsi.replace(/^\s*Header\s+\([^)]*\)\s+/, '')
AfterHeaderType(noAnsi) ==
    LET a == AfterMarker(noAnsi, "Header")
    IN  IF /\ StartsWithMarker(noAnsi, "Header")
           /\ Len(a) >= 2 /\ a[1] \in ParenTok /\ a[2] = "SP"
        THEN TrimLeft(Tail(a))
        ELSE noAnsi

\* tryExtractHeader: <<key, value>>, or <<>> for undefined.  The marker is
\* tested on the line as given; key and value come from the preprocessed line
\* matched against /^(\S.*?)\s{2,}(.*)$/.
tryExtractHeader(line) ==
    IF ~StartsWithMarker(line, "Header") THEN <<>>
    ELSE LET afterHeader == AfterHeaderType(preprocess(line))
             g           == FirstGap(afterHeader)
         IN  IF afterHeader # <<>> /\ afterHeader[1] # "SP" /\ g > 0
             THEN <<Trim(SubSeq(afterHeader, 1, g - 1)),
                    Trim(SubSeq(afterHeader, g, Len(afterHeader)))>>
             ELSE <<>>

\* Index of the first token of s in the set ts, 0 when none.
FirstIn(s, ts) ==
    IF \E i \in 1..Len(s) : s[i] \in ts
    THEN CHOOSE i \in 1..Len(s) : s[i] \in ts /\ \A j \in 1..(i - 1) : s[j] \notin ts
    ELSE 0

\* The group matched by /Body\s*\(([^)]*)\)/: index of the first group that
\* follows a "Body" word with nothing but spaces in between, 0 when none.
BodyTypeIndex(s) ==
    LET ok(i) == /\ s[i] \in ParenTok
                 /\ \E b \in 1..(i - 1) :
                        s[b] = "Body" /\ \A j \in (b + 1)..(i - 1) : s[j] = "SP"
    IN  IF \E i \in 1..Len(s) : ok(i)
        THEN CHOOSE i \in 1..Len(s) : ok(i) /\ \A j \in 1..(i - 1) : ~ok(j)
        ELSE 0

\* tryParseBodyMarker: <<>> for undefined, else <<[type, bytes]>> where type
\* is <<>> when absent and bytes is -1 when absent.
tryParseBodyMarker(line) ==
    LET noAnsi == preprocess(line)
        ti     == BodyTypeIndex(noAnsi)
        bi     == FirstIn(noAnsi, BytesTok)
    IN  IF ~StartsWithMarker(noAnsi, "Body") THEN <<>>
        ELSE <<[type  |-> IF ti > 0 THEN <<Inner(noAnsi[ti])>> ELSE <<>>,
                bytes |-> IF bi > 0 THEN BytesOf(noAnsi[bi]) ELSE -1]>>

\* ------------------------------------------------------------------ state

VARIABLES
    currentEvent,         \* <<>> (undefined) or <<ev>>, the event under construction
    currentEmitted,       \* the event under construction was handed to onEvent
    isInBody,             \* a Body marker was seen for the event
    lastStructuralKey,    \* "Service" or "undefined"
    expectedBodyBytes,    \* declared body size, -1 for undefined
    accumulatedBodyBytes, \* bytes counted for the body so far
    completionEmitTimer,  \* handle of the early-completion timer, 0 for undefined
    bodyIdleEmitTimer,    \* handle of the body-idle timer, 0 for undefined
    timers,               \* the runtime's pending timeouts: [id, kind, gen]
    heap,                 \* the headers objects, by reference (= event number)
    delivered,            \* the calls of onEvent, in order
    gen,                  \* number of header lines fed so far
    nextTimer,            \* next timer handle
    fed,                  \* number of feed() calls so far
    dones,                \* number of done() calls so far
    idLines,              \* events that were fed an Exchange line carrying an id
    shape,                \* how far the event's lines follow header, Exchange,
                          \* Body marker with byte count, body lines
    prevService,          \* the line fed last went to this event and was a
                          \* Service line
    bodyLines,            \* the lines appended to the event's body, in order
    last                  \* what the last step did

\* The state of the TraceManager (src/src/trace/TraceManager.ts), for one
\* integration id.
VARIABLES
    integrationIdToProcess, \* the map: <<>> or <<p>>, the entry of dump process p
    entries,                \* the entry objects created so far: [status, buffer]
    dumpProcs,              \* the dump processes spawned so far:
                            \* [killed, closed, errored]
    pendingStarts,          \* start() calls awaiting their 'start' command
    pendingStops,           \* stop() calls awaiting their 'stop' command:
                            \* [clean, tainted], tainted when start() was
                            \* called after them
    fired,                  \* the lines fired by the last data handler run
    quiet,                  \* a stop() has returned and start() was not called
                            \* since that stop() was called
    tmLast,                 \* what the last TraceManager step did
    calls,                  \* number of start(), stop() and dispose() calls
    chunks                  \* number of data chunks received

parserVars == <<currentEvent, currentEmitted, isInBody, lastStructuralKey,
                expectedBodyBytes, accumulatedBodyBytes, completionEmitTimer,
                bodyIdleEmitTimer, timers, heap, delivered, gen, nextTimer, fed,
                dones, idLines, shape, prevService, bodyLines, last>>

tmVars == <<integrationIdToProcess, entries, dumpProcs, pendingStarts,
            pendingStops, fired, quiet, tmLast, calls, chunks>>

vars == <<parserVars, tmVars>>

\* The whole state as one record, so that a handler is a function of it.
State ==
    [currentEvent |-> currentEvent, currentEmitted |-> currentEmitted,
     isInBody |-> isInBody, lastStructuralKey |-> lastStructuralKey,
     expectedBodyBytes |-> expectedBodyBytes,
     accumulatedBodyBytes |-> accumulatedBodyBytes,
     completionEmitTimer |-> completionEmitTimer,
     bodyIdleEmitTimer |-> bodyIdleEmitTimer, timers |-> timers, heap |-> heap,
     delivered |-> delivered, gen |-> gen, nextTimer |-> nextTimer, fed |-> fed,
     dones |-> dones, idLines |-> idLines, shape |-> shape,
     prevService |-> prevService, bodyLines |-> bodyLines, last |-> last]

\* The bounds of the model.
MaxFeeds == 6

MaxDones == 2

NoStep == [op |-> "init", cls |-> "none", emitted |-> 0]

\* The state after new DumpParser(onEvent).
InitState ==
    [currentEvent |-> <<>>, currentEmitted |-> FALSE, isInBody |-> FALSE,
     lastStructuralKey |-> "undefined", expectedBodyBytes |-> -1,
     accumulatedBodyBytes |-> 0, completionEmitTimer |-> 0,
     bodyIdleEmitTimer |-> 0, timers |-> {}, heap |-> <<>>, delivered |-> <<>>,
     gen |-> 0, nextTimer |-> 1, fed |-> 0, dones |-> 0, idLines |-> {},
     shape |-> "none", prevService |-> FALSE, bodyLines |-> <<>>, last |-> NoStep]

\* m[key] = value on a map held as a function.
MapPut(m, key, value) ==
    [k \in (DOMAIN m) \cup {key} |-> IF k = key THEN value ELSE m[k]]

\* The headers object of the event under construction.
CurHeaders(s) == s.heap[s.currentEvent[1].headers]

\* this.currentEvent.headers[key] = value
SetHeader(s, key, value) ==
    [s EXCEPT !.heap[s.currentEvent[1].headers] = MapPut(@, key, value)]

\* clearTimeout(handle)
clearTimeout(s, handle) ==
    [s EXCEPT !.timers = {t \in @ : t.id # handle}]

\* if (this.completionEmitTimer) { clearTimeout(...); ... = undefined }
ClearCompletionTimer(s) ==
    IF s.completionEmitTimer # 0
    THEN [clearTimeout(s, s.completionEmitTimer) EXCEPT !.completionEmitTimer = 0]
    ELSE s

\* if (this.bodyIdleEmitTimer) { clearTimeout(...); ... = undefined }
ClearIdleTimer(s) ==
    IF s.bodyIdleEmitTimer # 0
    THEN [clearTimeout(s, s.bodyIdleEmitTimer) EXCEPT !.bodyIdleEmitTimer = 0]
    ELSE s

\* setTimeout(callback, delay): a new pending timeout; its handle is s.nextTimer.
\* The callback reads this.currentEvent when it runs; gen records the event
\* that was under construction when the timer was armed.
setTimeout(s, kind) ==
    [s EXCEPT !.timers = @ \cup {[id |-> s.nextTimer, kind |-> kind, gen |-> s.gen]},
              !.nextTimer = @ + 1]

\* this.onEvent(ev): the value handed over is the event's fields and the
\* reference of its headers object.  via and armedFor record the trigger.
onEvent(s, ev, via, armedFor) ==
    [s EXCEPT !.delivered = Append(@, [ev |-> ev, via |-> via, armedFor |-> armedFor]),
              !.last.emitted = @ + 1]

\* { ...this.currentEvent }: a new object with the same field values; the
\* headers field still refers to the same headers object.
ShallowCopy(ev) == ev

\* Headers objects no longer referenced by the parser or by a delivered
\* event are garbage.
Collect(s) ==
    LET live == {s.currentEvent[i].headers : i \in 1..Len(s.currentEvent)}
                  \cup {s.delivered[i].ev.headers : i \in 1..Len(s.delivered)}
    IN  [s EXCEPT !.heap = [r \in (DOMAIN @) \cap live |-> @[r]]]

\* --------------------------------------------------------------- handlers

\* TimerMayEmit without the test of the exchange id.
TimerMayEmitNoIdTest(s) ==
    /\ s.currentEvent # <<>>
    /\ ~s.currentEmitted

\* The guard shared by both timer callbacks.
TimerMayEmit(s) ==
    /\ s.currentEvent # <<>>
    /\ ~s.currentEmitted
    /\ s.currentEvent[1].exchangeId # <<>>

\* CompletionCallback holding the event that was under construction when the
\* timeout was set, in place of reading this.currentEvent when it runs.
CompletionCallbackHeldEvent(s, t) ==
    LET I    == {i \in 1..Len(s.delivered) : s.delivered[i].ev.gen = t.gen}
        held == IF s.currentEvent # <<>> /\ s.currentEvent[1].gen = t.gen
                THEN <<s.currentEvent[1]>>
                ELSE IF I = {} THEN <<>>
                ELSE <<s.delivered[CHOOSE i \in I : \A j \in I : j <= i].ev>>
        e    == IF held # <<>> /\ ~s.currentEmitted /\ held[1].exchangeId # <<>>
                THEN [onEvent(s, ShallowCopy(held[1]), "completion", t.gen)
                          EXCEPT !.currentEmitted = TRUE]
                ELSE s
    IN  [e EXCEPT !.completionEmitTimer = 0]

\* The callback armed at DumpParser.feed for completionEmitTimer.
CompletionCallback(s, t) ==
    LET e == IF TimerMayEmit(s)
             THEN [onEvent(s, ShallowCopy(s.currentEvent[1]), "completion", t.gen)
                       EXCEPT !.currentEmitted = TRUE]
             ELSE s
    IN  [e EXCEPT !.completionEmitTimer = 0]

\* The callback armed at DumpParser.feed for bodyIdleEmitTimer.
IdleCallback(s, t) ==
    LET e == IF TimerMayEmit(s)
             THEN [onEvent(s, ShallowCopy(s.currentEvent[1]), "idle", t.gen)
                       EXCEPT !.currentEmitted = TRUE]
             ELSE s
    IN  [e EXCEPT !.bodyIdleEmitTimer = 0]

\* FlushMayEmit without the test of currentEmitted.
FlushMayEmitAgain(s, ev) == Trim(ev.exchangeId) # <<>>

\* FlushMayEmit without the test of the exchange id.
FlushMayEmitNoIdTest(s, ev) == ~s.currentEmitted

\* flushCurrentEvent's test for handing the outgoing event over.
FlushMayEmit(s, ev) == Trim(ev.exchangeId) # <<>> /\ ~s.currentEmitted

\* flushCurrentEvent
flushCurrentEvent(s) ==
    IF s.currentEvent = <<>> THEN s
    ELSE LET ev == s.currentEvent[1]
             s1 == [s EXCEPT !.currentEvent = <<>>]
             s2 == IF FlushMayEmit(s1, ev) THEN onEvent(s1, ev, "flush", 0) ELSE s1
         IN  ClearIdleTimer(ClearCompletionTimer(s2))

\* done
done(s) ==
    Collect(flushCurrentEvent(
        [s EXCEPT !.last = [op |-> "done", cls |-> "none", emitted |-> 0],
                  !.dones = @ + 1, !.shape = "none", !.prevService = FALSE,
                  !.bodyLines = <<>>]))

\* The Exchange meta branch of tryExtractStructural.
ExchangeMeta(s, noAnsi) ==
    LET lineAfter == AfterMarker(noAnsi, "Exchange")
        typed     == lineAfter # <<>> /\ lineAfter[1] \in ParenTok
        rest      == IF typed THEN Tail(lineAfter) ELSE lineAfter
        parts     == SplitWs(rest)
        idIndex   == LastIdIndex(parts)
        s1        == IF typed
                     THEN SetHeader(s, <<"ExchangeType">>, <<Inner(lineAfter[1])>>)
                     ELSE s
        s2        == IF idIndex > 1
                     THEN SetHeader(s1, <<"ExchangePattern">>, parts[idIndex - 1])
                     ELSE s1
    IN  [s2 EXCEPT !.lastStructuralKey = "undefined"]

\* ContinuationValue dropping the value the Service line gave.
ContinuationValueReplaces(prev, tok) == <<tok>>

\* prev ? `${prev} (${m[1]})` : `(${m[1]})`
ContinuationValue(prev, tok) ==
    IF prev # <<>> THEN prev \o <<"SP", tok>> ELSE <<tok>>

\* tryExtractStructural: [hit |-> the return value, s |-> the state after].
\* Only called with an event under construction.
tryExtractStructural(s, line) ==
    LET noAnsi == preprocess(line)
        t      == Trim(noAnsi)
        ep     == Trim(AfterMarker(noAnsi, "Endpoint"))
        sv     == Trim(AfterMarker(noAnsi, "Service"))
        ms     == Trim(AfterMarker(noAnsi, "Message"))
        prev   == IF <<"Service">> \in DOMAIN CurHeaders(s)
                  THEN CurHeaders(s)[<<"Service">>] ELSE <<>>
    IN  IF StartsWithMarker(noAnsi, "Endpoint") /\ ep # <<>>
        THEN [hit |-> TRUE,
              s   |-> [SetHeader(s, <<"Endpoint">>, ep)
                          EXCEPT !.lastStructuralKey = "undefined"]]
        ELSE IF StartsWithMarker(noAnsi, "Service") /\ sv # <<>>
        THEN [hit |-> TRUE,
              s   |-> [SetHeader(s, <<"Service">>, sv)
                          EXCEPT !.lastStructuralKey = "Service"]]
        ELSE IF Len(t) = 1 /\ t[1] \in ParenTok /\ s.lastStructuralKey = "Service"
        THEN [hit |-> TRUE,
              s   |-> SetHeader(s, <<"Service">>, ContinuationValue(prev, t[1]))]
        ELSE IF StartsWithMarker(noAnsi, "Message") /\ Len(ms) = 1 /\ ms[1] \in ParenTok
        THEN [hit |-> TRUE,
              s   |-> [SetHeader(s, <<"MessageType">>, <<Inner(ms[1])>>)
                          EXCEPT !.lastStructuralKey = "undefined"]]
        ELSE IF StartsWithMarker(noAnsi, "Exchange")
        THEN [hit |-> TRUE, s |-> ExchangeMeta(s, noAnsi)]
        ELSE [hit |-> FALSE, s |-> s]

\* The condition under which an Exchange line arms the early-completion timer.
ArmsCompletion(s) ==
    /\ ~s.currentEmitted
    /\ ~s.isInBody
    /\ s.expectedBodyBytes = -1
    /\ IsTerminalStatus(s.currentEvent[1].status)

\* The completionEmitTimer field is overwritten with the new handle; a handle
\* it held before is not cleared.
ArmCompletionTimer(s) ==
    [setTimeout(s, "completion") EXCEPT !.completionEmitTimer = s.nextTimer]

\* feed, exchange id branch: the id is recorded and the timer possibly armed;
\* the line then goes on to the other classifiers.
FeedExchangeId(s, line) ==
    LET exId == tryExtractExchangeId(line)
        s1   == [s EXCEPT !.currentEvent[1].exchangeId = exId]
    IN  IF exId = <<>> THEN s
        ELSE IF ArmsCompletion(s1) THEN ArmCompletionTimer(s1) ELSE s1

\* ResetTransient leaving the body mode and the accumulated count as they are.
ResetTransientKeepsBodyMode(s) ==
    [s EXCEPT !.currentEmitted = FALSE, !.expectedBodyBytes = -1]

\* feed, header line branch: the per-event fields set back.
ResetTransient(s) ==
    [s EXCEPT !.currentEmitted = FALSE, !.isInBody = FALSE,
              !.expectedBodyBytes = -1, !.accumulatedBodyBytes = 0]

\* feed, header line branch.
FeedHeaderLine(s, clean) ==
    LET s1     == IF s.currentEvent # <<>> THEN flushCurrentEvent(s) ELSE s
        status == HeaderStatus(clean)
        g      == s.gen + 1
        ev     == [gen |-> g, timestamp |-> HdrTimestamp,
                   step |-> HdrNode \o <<"SP", ":", "SP">> \o HdrIndex
                              \o <<"SP", "-", "SP">> \o status,
                   status |-> status, headers |-> g, body |-> <<>>,
                   exchangeId |-> <<>>]
        s2     == [ResetTransient(s1) EXCEPT !.currentEvent = <<ev>>, !.gen = g,
                                             !.heap = MapPut(@, g, <<>>),
                                             !.last.cls = "header"]
    IN  ClearIdleTimer(ClearCompletionTimer(s2))

\* feed, body marker branch.
FeedBodyMarker(s, bodyMeta) ==
    LET s1 == IF bodyMeta.type # <<>>
              THEN SetHeader(s, <<"BodyType">>, bodyMeta.type) ELSE s
        s2 == IF bodyMeta.bytes # -1
              THEN SetHeader(s1, <<"BodyBytes">>, <<NumStr(bodyMeta.bytes)>>) ELSE s1
        s3 == [s2 EXCEPT !.expectedBodyBytes = bodyMeta.bytes,
                         !.accumulatedBodyBytes = 0, !.isInBody = TRUE,
                         !.last.cls = "marker"]
    IN  ClearIdleTimer(ClearCompletionTimer(s3))

\* The exact-size test made after a body line was appended.
ExactSizeReached(s) ==
    /\ s.expectedBodyBytes # -1
    /\ s.accumulatedBodyBytes >= s.expectedBodyBytes
    /\ s.currentEvent[1].exchangeId # <<>>
    /\ ~s.currentEmitted

\* RearmIdleTimer without clearTimeout of the timeout set before.
RearmIdleTimerKeepsOld(s) ==
    [setTimeout(s, "idle") EXCEPT !.bodyIdleEmitTimer = s.nextTimer]

\* if (this.bodyIdleEmitTimer) clearTimeout(...); this.bodyIdleEmitTimer =
\* setTimeout(..., 120)
RearmIdleTimer(s) ==
    LET s1 == IF s.bodyIdleEmitTimer # 0
              THEN clearTimeout(s, s.bodyIdleEmitTimer) ELSE s
    IN  [setTimeout(s1, "idle") EXCEPT !.bodyIdleEmitTimer = s1.nextTimer]

\* feed, body text branch: append, re-arm the idle timer, exact-size trigger.
FeedBodyLine(s, line) ==
    LET body == s.currentEvent[1].body
        s1   == IF Len(body) > 0
                THEN [s EXCEPT !.currentEvent[1].body = body \o <<"NL">> \o line,
                               !.accumulatedBodyBytes =
                                   @ + SeqBytes(<<"NL">>) + SeqBytes(line)]
                ELSE [s EXCEPT !.currentEvent[1].body = line,
                               !.accumulatedBodyBytes = @ + SeqBytes(line)]
        s3   == [RearmIdleTimer(s1) EXCEPT !.last.cls = "body"]
    IN  IF ExactSizeReached(s3)
        THEN ClearCompletionTimer(
                 [onEvent(s3, ShallowCopy(s3.currentEvent[1]), "exact", 0)
                     EXCEPT !.currentEmitted = TRUE])
        ELSE s3

\* feed, the content classifiers in their order, for an event under construction.
FeedContent(s, line) ==
    LET s1       == FeedExchangeId(s, line)
        header   == tryExtractHeader(line)
        st       == tryExtractStructural(s1, line)
        bodyMeta == tryParseBodyMarker(line)
    IN  IF header # <<>>
        THEN [SetHeader(s1, header[1], header[2]) EXCEPT !.last.cls = "kv"]
        ELSE IF st.hit THEN [st.s EXCEPT !.last.cls = "struct"]
        ELSE IF bodyMeta # <<>> THEN FeedBodyMarker(s1, bodyMeta[1])
        ELSE IF ~s1.isInBody THEN [s1 EXCEPT !.last.cls = "ignored"]
        ELSE FeedBodyLine(s1, line)

\* FeedNoEvent counting the bytes of the line all the same.
FeedNoEventCountsBytes(s, line) ==
    [s EXCEPT !.accumulatedBodyBytes = @ + SeqBytes(line)]

\* feed, a line that is no header line while this.currentEvent is undefined:
\* the block of the content classifiers is skipped.
FeedNoEvent(s, line) == s

\* feed
feed(s, line) ==
    LET s0 == [s EXCEPT !.last = [op |-> "feed", cls |-> "none", emitted |-> 0],
                        !.fed = @ + 1]
    IN  Collect(IF headerRegex(preprocess(line)) THEN FeedHeaderLine(s0, preprocess(line))
                ELSE IF s0.currentEvent # <<>> THEN FeedContent(s0, line)
                ELSE FeedNoEvent(s0, line))

\* A pending timeout runs its callback.
fire(s, t) ==
    LET s0 == [s EXCEPT !.timers = @ \ {t},
                        !.last = [op |-> "fire", cls |-> "none", emitted |-> 0]]
    IN  Collect(IF t.kind = "completion" THEN CompletionCallback(s0, t)
                ELSE IdleCallback(s0, t))

\* The runtime keeps one list of timeouts per delay and runs each list in the
\* order its timeouts were set; which list runs first depends on the other
\* timeouts of the process and on how long the thread was busy.  A timeout
\* cannot run while a timeout of the same delay that was set before it is
\* pending; between an early-completion timeout (100 ms) and a body-idle
\* timeout (120 ms) either can run first.
CanFire(s, t) ==
    /\ t \in s.timers
    /\ \A u \in s.timers : ~(u.kind = t.kind /\ u.id < t.id)

\* ------------------------------------------------------------------ lines

\* 2025-08-14 00:45:23.093  16397 --- [ thread #7] route1 : 1 - Completed (3ms)
HdrCompleted == <<"HDR", "SP", "Completed", "SP", "(3ms)">>

\* ... route1 : 1 - \x1b[32mCreated\x1b[m
HdrCreated == <<"HDR", "SP", "ESC", "Created", "ESC">>

\*   Exchange  \x1b[2m(DefaultExchange)\x1b[m  \x1b[2mInOnly\x1b[m  \x1b[32mID-...\x1b[m
ExchangeLine ==
    <<"SP", "SP", "Exchange", "SP", "SP", "ESC", "(DefaultExchange)", "ESC", "SP", "SP",
      "ESC", "InOnly", "ESC", "SP", "SP", "ESC", "ID-A", "ESC">>

\*   Exchange  (DefaultExchange)  InOnly  x-1          (no token is an id)
ExchangeNoId ==
    <<"SP", "SP", "Exchange", "SP", "SP", "(DefaultExchange)", "SP", "SP", "InOnly",
      "SP", "SP", "x-1">>

\* \x1b[2m  Exchange  (DefaultExchange)  InOnly  ID-...\x1b[m   (colour first)
AnsiExchangeLine ==
    <<"ESC", "SP", "SP", "Exchange", "SP", "SP", "(DefaultExchange)", "SP", "SP",
      "InOnly", "SP", "SP", "ID-A", "ESC">>

\* svc  |   Exchange  (DefaultExchange)  InOnly  ID-...      (container prefix)
PrefixedExchangeLine ==
    <<"svc", "SP", "SP", "|", "SP", "SP", "SP", "Exchange", "SP", "SP",
      "(DefaultExchange)", "SP", "SP", "InOnly", "SP", "SP", "ID-A">>

\*   Header  \x1b[2m(String)\x1b[m  k  v
HeaderLine ==
    <<"SP", "SP", "Header", "SP", "SP", "ESC", "(String)", "ESC", "SP", "SP", "k",
      "SP", "SP", "v">>

\*   Body  \x1b[2m(String)\x1b[m \x1b[2m(bytes: 3)\x1b[m
BodyMarker3 ==
    <<"SP", "SP", "Body", "SP", "SP", "ESC", "(String)", "ESC", "SP", "ESC",
      "(bytes: 3)", "ESC">>

\*   Body  (String) (size: 2)                         (no byte count)
BodyMarkerNoBytes ==
    <<"SP", "SP", "Body", "SP", "SP", "(String)", "SP", "(size: 2)">>

\* a
TextLine == <<"a">>

\*   Service  svc
ServiceLine == <<"SP", "SP", "Service", "SP", "SP", "svc">>

\*   (protocol=http)
ContinuationLine == <<"SP", "SP", "(protocol=http)">>

\*   Endpoint  a
EndpointLine == <<"SP", "SP", "Endpoint", "SP", "SP", "a">>

\*   Message  (String)
MessageLine == <<"SP", "SP", "Message", "SP", "SP", "(String)">>

\* The empty line.
EmptyLine == <<>>

\* The lines fed under SpecStruct: the structural lines and an empty line.
StructLines ==
    {HdrCreated, ExchangeLine, ServiceLine, ContinuationLine, EndpointLine,
     MessageLine, HeaderLine, BodyMarkerNoBytes, TextLine, EmptyLine}

\* The lines fed under SpecLive.
LiveLines ==
    {HdrCompleted, HdrCreated, ExchangeLine, PrefixedExchangeLine, HeaderLine,
     ServiceLine, BodyMarker3, TextLine}

\* The lines fed under Spec.
Lines ==
    {HdrCompleted, HdrCreated, ExchangeLine, ExchangeNoId, AnsiExchangeLine,
     PrefixedExchangeLine, HeaderLine, BodyMarker3, BodyMarkerNoBytes, TextLine}

\* ----------------------------------------------------------- TraceManager

\* The TraceManager state as one record.
TMState ==
    [integrationIdToProcess |-> integrationIdToProcess, entries |-> entries,
     dumpProcs |-> dumpProcs, pendingStarts |-> pendingStarts,
     pendingStops |-> pendingStops, fired |-> fired, quiet |-> quiet,
     tmLast |-> tmLast, calls |-> calls, chunks |-> chunks]

\* The bounds of the TraceManager model.
MaxCalls == 3

MaxChunks == 2

\* The state after new TraceManager().
TMInitState ==
    [integrationIdToProcess |-> <<>>, entries |-> <<>>, dumpProcs |-> <<>>,
     pendingStarts |-> 0, pendingStops |-> [clean |-> 0, tainted |-> 0],
     fired |-> <<>>, quiet |-> FALSE, tmLast |-> [op |-> "init", proc |-> 0],
     calls |-> 0, chunks |-> 0]

\* A step of the TraceManager begins: no line fired yet by it.
TMStep(m, op, proc) ==
    [m EXCEPT !.fired = <<>>, !.tmLast = [op |-> op, proc |-> proc]]

\* isRunning
isRunning(m) ==
    /\ m.integrationIdToProcess # <<>>
    /\ m.entries[m.integrationIdToProcess[1]].status = "running"
    /\ ~m.dumpProcs[m.integrationIdToProcess[1]].killed

\* start, up to the await of the 'start' command.  A start() call taints the
\* stop() calls in flight.
startCall(m) ==
    LET m0 == [TMStep(m, "start", 0) EXCEPT
                  !.calls = @ + 1, !.quiet = FALSE,
                  !.pendingStops = [clean |-> 0, tainted |-> @.clean + @.tainted]]
    IN  IF isRunning(m0) THEN m0
        ELSE [m0 EXCEPT !.pendingStarts = @ + 1]

\* start, after the 'start' command has ended: the dump process is spawned
\* and registered if the map has no entry.
startResume(m) ==
    LET m0 == [TMStep(m, "resume", 0) EXCEPT !.pendingStarts = @ - 1]
        n  == Len(m.dumpProcs) + 1
    IN  IF m0.integrationIdToProcess = <<>>
        THEN [m0 EXCEPT
                 !.dumpProcs = Append(@, [killed |-> FALSE, closed |-> FALSE,
                                          errored |-> FALSE]),
                 !.entries = Append(@, [status |-> "running", buffer |-> <<>>]),
                 !.integrationIdToProcess = <<n>>,
                 !.tmLast.proc = n]
        ELSE m0

\* onClose without the comparison of the dump processes.
onCloseAnyProc(m, q) ==
    LET m0 == [TMStep(m, "close", q) EXCEPT !.dumpProcs[q].closed = TRUE]
    IN  IF m0.integrationIdToProcess # <<>>
        THEN [m0 EXCEPT !.entries[m0.integrationIdToProcess[1]].status = "stopped",
                        !.integrationIdToProcess = <<>>]
        ELSE m0

\* The 'close' handler of dump process q.
onClose(m, q) ==
    LET m0 == [TMStep(m, "close", q) EXCEPT !.dumpProcs[q].closed = TRUE]
    IN  IF m0.integrationIdToProcess # <<>> /\ m0.integrationIdToProcess[1] = q
        THEN [m0 EXCEPT !.entries[q].status = "stopped",
                        !.integrationIdToProcess = <<>>]
        ELSE m0

\* The 'error' handler of dump process q.
onError(m, q) ==
    LET m0 == [TMStep(m, "error", q) EXCEPT !.dumpProcs[q].errored = TRUE]
    IN  IF m0.integrationIdToProcess # <<>> /\ m0.integrationIdToProcess[1] = q
        THEN [m0 EXCEPT !.entries[q].status = "error",
                        !.integrationIdToProcess = <<>>]
        ELSE m0

\* What dumpProc.kill() can do: the signal is delivered and killed becomes
\* true; the process is gone already, or was never started, and killed stays
\* false; the signal cannot be sent and kill() emits 'error' before it
\* returns.
KillOutcomes == {"delivered", "gone", "error"}

\* dumpProc.kill() on dump process q.  The 'error' it emits runs the 'error'
\* handler inside the calling stop() or dispose().
kill(m, q, outcome) ==
    CASE outcome = "delivered" -> [m EXCEPT !.dumpProcs[q].killed = TRUE]
      [] outcome = "gone"      -> m
      [] outcome = "error"     -> [onError(m, q) EXCEPT !.tmLast = m.tmLast]

\* entry.status = 'stopped'; kill unless killed; delete: the body shared by
\* stop and dispose.
StopEntry(m, outcome) ==
    IF m.integrationIdToProcess = <<>> THEN m
    ELSE LET q  == m.integrationIdToProcess[1]
             m1 == [m EXCEPT !.entries[q].status = "stopped"]
             m2 == IF m1.dumpProcs[q].killed THEN m1 ELSE kill(m1, q, outcome)
         IN  [m2 EXCEPT !.integrationIdToProcess = <<>>]

\* stop, up to the await of the 'stop' command.
stopCall(m, outcome) ==
    [StopEntry(TMStep(m, "stop", 0), outcome) EXCEPT
        !.calls = @ + 1, !.pendingStops.clean = @ + 1]

\* stop, after the 'stop' command has ended: the call returns.
stopReturn(m, clean) ==
    LET m0 == TMStep(m, "stopped", 0)
    IN  IF clean
        THEN [m0 EXCEPT !.pendingStops.clean = @ - 1, !.quiet = TRUE]
        ELSE [m0 EXCEPT !.pendingStops.tainted = @ - 1]

\* dispose
dispose(m, outcome) ==
    [StopEntry(TMStep(m, "dispose", 0), outcome) EXCEPT !.calls = @ + 1]

\* The characters of the dump output: a letter, line feed, carriage return.
Chars == {"a", "NL", "CR"}

\* The lengths of the chunks of the model.
ChunkLens == {1, 2, 3}

\* The chunks a 'data' event can carry.
Chunks == UNION {[1..n -> Chars] : n \in ChunkLens}

\* The chunks of a dump process that writes one whole line at a time.
LineChunks == {<<"a", "NL">>, <<"a", "CR", "NL">>}

\* buffer.indexOf('\n'), counted from 1; 0 when there is none.
IndexOfNL(buf) ==
    IF \E i \in 1..Len(buf) : buf[i] = "NL"
    THEN CHOOSE i \in 1..Len(buf) : buf[i] = "NL" /\ \A j \in 1..(i - 1) : buf[j] # "NL"
    ELSE 0

\* line.replace(/\r$/, '')
StripCR(line) ==
    IF line # <<>> /\ line[Len(line)] = "CR" THEN SubSeq(line, 1, Len(line) - 1)
    ELSE line

RECURSIVE DrainLines(_, _)
\* The while loop of the stdout handler: the lines fired and the buffer left.
DrainLines(buf, out) ==
    LET i == IndexOfNL(buf)
    IN  IF i = 0 THEN [buffer |-> buf, lines |-> out]
        ELSE LET line == StripCR(SubSeq(buf, 1, i - 1))
             IN  DrainLines(SubSeq(buf, i + 1, Len(buf)),
                            IF Len(line) > 0 THEN Append(out, line) ELSE out)

\* The stdout 'data' handler of dump process q.
onStdout(m, q, chunk) ==
    LET m0 == [TMStep(m, "stdout", q) EXCEPT !.chunks = @ + 1]
        d  == DrainLines(m0.entries[q].buffer \o chunk, <<>>)
    IN  [m0 EXCEPT !.entries[q].buffer = d.buffer, !.fired = d.lines]

RECURSIVE TrimStart(_)
TrimStart(text) ==
    IF text # <<>> /\ Head(text) \in {"NL", "CR"} THEN TrimStart(Tail(text)) ELSE text

RECURSIVE TrimEnd(_)
TrimEnd(text) ==
    IF text # <<>> /\ text[Len(text)] \in {"NL", "CR"}
    THEN TrimEnd(SubSeq(text, 1, Len(text) - 1)) ELSE text

\* chunk.toString('utf8').trim(): line feeds and carriage returns are white
\* space.
TrimText(text) == TrimEnd(TrimStart(text))

\* The stderr 'data' handler of dump process q.
onStderr(m, q, chunk) ==
    LET m0   == [TMStep(m, "stderr", q) EXCEPT !.chunks = @ + 1]
        line == TrimText(chunk)
    IN  IF line # <<>> THEN [m0 EXCEPT !.fired = <<line>>] ELSE m0

\* ---------------------------------------------------------------- actions

Init ==
    /\ currentEvent = InitState.currentEvent
    /\ currentEmitted = InitState.currentEmitted
    /\ isInBody = InitState.isInBody
    /\ lastStructuralKey = InitState.lastStructuralKey
    /\ expectedBodyBytes = InitState.expectedBodyBytes
    /\ accumulatedBodyBytes = InitState.accumulatedBodyBytes
    /\ completionEmitTimer = InitState.completionEmitTimer
    /\ bodyIdleEmitTimer = InitState.bodyIdleEmitTimer
    /\ timers = InitState.timers
    /\ heap = InitState.heap
    /\ delivered = InitState.delivered
    /\ gen = InitState.gen
    /\ nextTimer = InitState.nextTimer
    /\ fed = InitState.fed
    /\ dones = InitState.dones
    /\ idLines = InitState.idLines
    /\ shape = InitState.shape
    /\ prevService = InitState.prevService
    /\ bodyLines = InitState.bodyLines
    /\ last = InitState.last
    /\ integrationIdToProcess = TMInitState.integrationIdToProcess
    /\ entries = TMInitState.entries
    /\ dumpProcs = TMInitState.dumpProcs
    /\ pendingStarts = TMInitState.pendingStarts
    /\ pendingStops = TMInitState.pendingStops
    /\ fired = TMInitState.fired
    /\ quiet = TMInitState.quiet
    /\ tmLast = TMInitState.tmLast
    /\ calls = TMInitState.calls
    /\ chunks = TMInitState.chunks

\* The next state is the record r.
Becomes(r) ==
    /\ currentEvent' = r.currentEvent
    /\ currentEmitted' = r.currentEmitted
    /\ isInBody' = r.isInBody
    /\ lastStructuralKey' = r.lastStructuralKey
    /\ expectedBodyBytes' = r.expectedBodyBytes
    /\ accumulatedBodyBytes' = r.accumulatedBodyBytes
    /\ completionEmitTimer' = r.completionEmitTimer
    /\ bodyIdleEmitTimer' = r.bodyIdleEmitTimer
    /\ timers' = r.timers
    /\ heap' = r.heap
    /\ delivered' = r.delivered
    /\ gen' = r.gen
    /\ nextTimer' = r.nextTimer
    /\ fed' = r.fed
    /\ dones' = r.dones
    /\ idLines' = r.idLines
    /\ shape' = r.shape
    /\ prevService' = r.prevService
    /\ bodyLines' = r.bodyLines
    /\ last' = r.last
    /\ UNCHANGED tmVars

\* A line is an Exchange line carrying a valid id: after preprocessing it
\* begins with the marker Exchange and one of its tokens is an id.
IsExchangeIdLine(line) ==
    /\ StartsWithMarker(preprocess(line), "Exchange")
    /\ LastIdIndex(SplitWs(preprocess(line))) > 0

\* The events that were fed an Exchange line carrying an id, after line is fed.
NoteIdLine(s, line) ==
    IF /\ s.currentEvent # <<>>
       /\ ~headerRegex(preprocess(line))
       /\ IsExchangeIdLine(line)
    THEN s.idLines \cup {s.gen}
    ELSE s.idLines

\* How far the lines of the event under construction follow the sequence
\* header line, Exchange line carrying an id, Body marker with a byte count,
\* body lines, once line was fed in state s and feed returned state r.
NoteShape(s, line, r) ==
    IF r.last.cls = "header" THEN "header"
    ELSE IF s.currentEvent = <<>> THEN s.shape
    ELSE IF IsExchangeIdLine(line) /\ s.shape = "header" THEN "exchange"
    ELSE IF r.last.cls = "marker" /\ r.expectedBodyBytes # -1 /\ s.shape = "exchange"
    THEN "marker"
    ELSE IF r.last.cls = "body" /\ s.shape \in {"marker", "body"} THEN "body"
    ELSE "other"

\* A line is a Service line: after preprocessing it matches
\* /^\s*Service\s+(.*\S)\s*$/.
IsServiceLine(line) ==
    /\ StartsWithMarker(preprocess(line), "Service")
    /\ Trim(AfterMarker(preprocess(line), "Service")) # <<>>

\* Whether line, fed in state s, is a Service line given to the event under
\* construction.
NoteService(s, line) ==
    /\ s.currentEvent # <<>>
    /\ ~headerRegex(preprocess(line))
    /\ IsServiceLine(line)

\* The lines appended to the body of the event under construction, once line
\* was fed in state s and feed returned state r.
NoteBodyLines(s, line, r) ==
    IF r.last.cls = "header" THEN <<>>
    ELSE IF r.last.cls = "body" THEN Append(s.bodyLines, line)
    ELSE s.bodyLines

\* parser.feed(line)
Feed(line) ==
    /\ fed < MaxFeeds
    /\ Becomes([feed(State, line) EXCEPT
                   !.idLines = NoteIdLine(State, line),
                   !.shape = NoteShape(State, line, feed(State, line)),
                   !.prevService = NoteService(State, line),
                   !.bodyLines = NoteBodyLines(State, line, feed(State, line))])

\* A pending timeout expires.
Fire ==
    \E t \in timers : CanFire(State, t) /\ Becomes(fire(State, t))

\* parser.done()
Done ==
    /\ dones < MaxDones
    /\ Becomes(done(State))

FeedLines == \E line \in Lines : Feed(line)

Next == FeedLines \/ Fire \/ Done

Spec == Init /\ [][Next]_vars

FeedStructLines == \E line \in StructLines : Feed(line)

NextStruct == FeedStructLines \/ Fire \/ Done

\* The parser fed with structural lines and empty lines.
SpecStruct == Init /\ [][NextStruct]_vars

FeedLiveLines == \E line \in LiveLines : Feed(line)

NextLive == FeedLiveLines \/ Fire \/ Done

\* The parser with a runtime that runs every pending timeout in the end:
\* feed() and done() may stop being called at any point, a timeout that is
\* pending and not cancelled expires.
SpecLive == Init /\ [][NextLive]_vars /\ WF_vars(Fire)

\* The next TraceManager state is the record m.
TMBecomes(m) ==
    /\ integrationIdToProcess' = m.integrationIdToProcess
    /\ entries' = m.entries
    /\ dumpProcs' = m.dumpProcs
    /\ pendingStarts' = m.pendingStarts
    /\ pendingStops' = m.pendingStops
    /\ fired' = m.fired
    /\ quiet' = m.quiet
    /\ tmLast' = m.tmLast
    /\ calls' = m.calls
    /\ chunks' = m.chunks
    /\ UNCHANGED parserVars

\* manager.start(id) is called.
StartCall ==
    /\ calls < MaxCalls
    /\ TMBecomes(startCall(TMState))

\* The 'start' command of an awaiting start() ends.
StartResume ==
    /\ pendingStarts > 0
    /\ TMBecomes(startResume(TMState))

\* manager.stop(id) is called.
StopCall ==
    /\ calls < MaxCalls
    /\ \E outcome \in KillOutcomes : TMBecomes(stopCall(TMState, outcome))

\* The 'stop' command of an awaiting stop() ends.
StopReturn ==
    \/ /\ pendingStops.clean > 0
       /\ TMBecomes(stopReturn(TMState, TRUE))
    \/ /\ pendingStops.tainted > 0
       /\ TMBecomes(stopReturn(TMState, FALSE))

\* manager.dispose() is called.
Dispose ==
    /\ calls < MaxCalls
    /\ \E outcome \in KillOutcomes : TMBecomes(dispose(TMState, outcome))

\* A dump process ends: its 'close' event.
ProcClose ==
    \E q \in 1..Len(dumpProcs) :
        /\ ~dumpProcs[q].closed
        /\ TMBecomes(onClose(TMState, q))

\* A dump process reports an 'error' event.
ProcError ==
    \E q \in 1..Len(dumpProcs) :
        /\ ~dumpProcs[q].closed
        /\ ~dumpProcs[q].errored
        /\ TMBecomes(onError(TMState, q))

\* A dump process writes a chunk of the set cs to its stdout.
StdoutData(cs) ==
    \E q \in 1..Len(dumpProcs) : \E chunk \in cs :
        /\ ~dumpProcs[q].closed
        /\ chunks < MaxChunks
        /\ TMBecomes(onStdout(TMState, q, chunk))

\* A dump process writes a chunk of the set cs to its stderr.
StderrData(cs) ==
    \E q \in 1..Len(dumpProcs) : \E chunk \in cs :
        /\ ~dumpProcs[q].closed
        /\ chunks < MaxChunks
        /\ TMBecomes(onStderr(TMState, q, chunk))

NextTM ==
    \/ StartCall \/ StartResume \/ StopCall \/ StopReturn \/ Dispose
    \/ ProcClose \/ ProcError \/ StdoutData(LineChunks) \/ StderrData(LineChunks)

\* The TraceManager with its callers, commands and dump processes, the
\* processes writing whole lines.
SpecTM == Init /\ [][NextTM]_vars

NextIO ==
    \/ StartCall \/ StartResume \/ StopCall \/ StopReturn \/ Dispose
    \/ ProcClose \/ ProcError \/ StdoutData(Chunks) \/ StderrData(Chunks)

\* The TraceManager with dump processes whose output arrives in chunks cut
\* at arbitrary positions.
SpecIO == Init /\ [][NextIO]_vars

\* ----------------------------------------------------------------- claims

\* The event numbers of the delivered events, in delivery order.
DeliveredGens == [i \in 1..Len(delivered) |-> delivered[i].ev.gen]

\* Number of times event g was handed to onEvent.
TimesDelivered(d, g) == Cardinality({i \in 1..Len(d) : d[i].ev.gen = g})

\* What the consumer sees of the i-th delivered event: its fields and the
\* contents of its headers object.
DeliveredValue(i) ==
    [ev |-> delivered[i].ev, headers |-> heap[delivered[i].ev.headers]]

\* What the consumer has received in state s, without the bodies: for each
\* delivered event its timestamp, step, status, exchangeId and headers.
Observed(s) ==
    [i \in 1..Len(s.delivered) |->
        [timestamp  |-> s.delivered[i].ev.timestamp,
         step       |-> s.delivered[i].ev.step,
         status     |-> s.delivered[i].ev.status,
         exchangeId |-> s.delivered[i].ev.exchangeId,
         headers    |-> s.heap[s.delivered[i].ev.headers]]]

\* \x1b[2m  Header  (String)  k  v\x1b[m                 (colour first)
AnsiHeaderLine ==
    <<"ESC", "SP", "SP", "Header", "SP", "SP", "(String)", "SP", "SP", "k", "SP",
      "SP", "v", "ESC">>

\*   \x1b[1mExchange\x1b[m  (DefaultExchange)  InOnly  ID-...  (coloured marker)
AnsiMarkerExchangeLine ==
    <<"SP", "SP", "ESC", "Exchange", "ESC", "SP", "SP", "(DefaultExchange)", "SP",
      "SP", "InOnly", "SP", "SP", "ID-A">>

\* The line with a container prefix in front: "svc | " and the line.
WithPrefix(line) == <<"svc", "SP", "|", "SP">> \o line

\* How feed classified the line it was given: the classifier that took it
\* and everything it extracted (the body text itself left aside).
Classification(s) ==
    [cls        |-> s.last.cls,
     event      |-> IF s.currentEvent = <<>> THEN <<>>
                    ELSE <<[timestamp  |-> s.currentEvent[1].timestamp,
                            step       |-> s.currentEvent[1].step,
                            status     |-> s.currentEvent[1].status,
                            exchangeId |-> s.currentEvent[1].exchangeId,
                            headers    |-> CurHeaders(s)]>>,
     isInBody   |-> s.isInBody,
     expected   |-> s.expectedBodyBytes,
     structural |-> s.lastStructuralKey,
     armed      |-> {t.kind : t \in s.timers}]

\* C1: each event is handed to onEvent at most once, whichever triggers fire
\* for it.
C1_AtMostOnce ==
    \A i, j \in 1..Len(delivered) :
        i # j => delivered[i].ev.gen # delivered[j].ev.gen

\* C1 witness: the event under construction was delivered by the exact-size
\* trigger and a timer has expired for it afterwards.
C1_Witness ==
    /\ Len(delivered) >= 1
    /\ delivered[Len(delivered)].via = "exact"
    /\ last.op = "fire"
    /\ currentEvent # <<>>
    /\ delivered[Len(delivered)].ev.gen = currentEvent[1].gen
    /\ timers = {}

\* C2: after done(), the number of delivered events equals the number of
\* header lines whose event was fed an Exchange line carrying a valid id.
C2_CountMatchesIdLines ==
    last.op = "done" => Len(delivered) = Cardinality(idLines)

\* C3: every delivered event has a non-empty exchangeId; in particular a
\* header line or done() that ends an event without id delivers nothing.
C3_DeliveredHaveId ==
    /\ \A i \in 1..Len(delivered) : delivered[i].ev.exchangeId # <<>>
    /\ \A g \in 1..gen :
           (g \notin idLines /\ (currentEvent = <<>> \/ currentEvent[1].gen # g))
               => TimesDelivered(delivered, g) = 0

\* C3 witness: a first event without id was superseded by a header line, the
\* second event got an id and was delivered when the third header line came.
C3_Witness ==
    /\ gen = 3
    /\ last.cls = "header"
    /\ DeliveredGens = <<2>>
    /\ idLines = {2}

\* C4: a delivered event is an immutable snapshot: no later step changes any
\* of its fields or the contents of its headers map.
C4_SnapshotImmutable ==
    [][\A i \in 1..Len(delivered) : DeliveredValue(i)' = DeliveredValue(i)]_vars

\* C5: a timer callback delivers only the event it was armed for; once that
\* event is emitted, discarded or replaced it delivers nothing.
C5_StaleTimerNoOp ==
    \A i \in 1..Len(delivered) :
        delivered[i].via \in {"completion", "idle"}
            => delivered[i].armedFor = delivered[i].ev.gen

\* C6: right after a header line was processed or done() returned, no timer
\* armed for the outgoing event is pending.
C6_TimersCancelled ==
    (last.op = "done" \/ (last.op = "feed" /\ last.cls = "header"))
        => timers = {}

\* C7: given a header line, then an Exchange line carrying a valid id, then a
\* Body marker declaring a byte count and then body lines, the feed() call
\* whose appended line brings the accumulated byte count to the declared size
\* or more delivers the event inside the call, with the body accumulated so
\* far, for every header status and whatever timers fired in between.
C7_ExactSizeAlways ==
    [][(/\ fed' = fed + 1
        /\ last'.cls = "body"
        /\ shape \in {"marker", "body"}
        /\ gen \in idLines
        /\ accumulatedBodyBytes < expectedBodyBytes
        /\ accumulatedBodyBytes' >= expectedBodyBytes)
           => /\ Len(delivered') = Len(delivered) + 1
              /\ delivered'[Len(delivered')].ev = currentEvent'[1]]_vars

\* C8: done() with an undelivered event that has an id and saw no Body
\* marker delivers it, once in total; done() with an event without id
\* delivers nothing; afterwards no event is under construction.
C8_DoneFlushes ==
    [][dones' = dones + 1 =>
          /\ currentEvent' = <<>>
          /\ (/\ currentEvent # <<>>
              /\ currentEvent[1].exchangeId # <<>>
              /\ ~isInBody
              /\ ~currentEmitted)
                 => /\ delivered' = Append(delivered,
                                      [ev |-> currentEvent[1], via |-> "flush",
                                       armedFor |-> 0])
                    /\ TimesDelivered(delivered', currentEvent[1].gen) = 1
          /\ (currentEvent # <<>> /\ currentEvent[1].exchangeId = <<>>)
                 => delivered' = delivered]_vars

\* C8 witness: done() has just delivered an event that saw no Body marker.
C8_Witness ==
    /\ last.op = "done"
    /\ last.emitted = 1
    /\ ~isInBody
    /\ delivered[Len(delivered)].via = "flush"
    /\ delivered[Len(delivered)].ev.body = <<>>

\* C9: ANSI sequences in a line change neither its classification nor the
\* extracted values: from every state, feeding a line and then calling done()
\* delivers the same events (timestamp, step, status, headers, exchangeId) as
\* feeding the line with its ANSI sequences removed.
C9_AnsiTransparent ==
    \A line \in Lines \cup {AnsiHeaderLine, AnsiMarkerExchangeLine} :
        Observed(done(feed(State, line)))
            = Observed(done(feed(State, stripAnsi(line))))

\* C10: a line with a leading container prefix is classified by every
\* classifier exactly as the same line without the prefix.
C10_PrefixTransparent ==
    \A line \in {l \in Lines : FirstPipe(l) = 0} :
        Classification(feed(State, WithPrefix(line)))
            = Classification(feed(State, line))

\* The value a Service line carries: the text after the marker, trimmed.
ServiceValue(line) == Trim(AfterMarker(preprocess(line), "Service"))

\* C11: when the line fed last to the event under construction was the
\* Service line, feeding the bare parenthesised line next leaves one Service
\* header, whose value is the Service line's value, a space and the
\* parenthesised text, and leaves the body as it was.
C11_ServiceContinuation ==
    (currentEvent # <<>> /\ prevService) =>
        LET r == feed(State, ContinuationLine)
        IN  /\ <<"Service">> \in DOMAIN CurHeaders(r)
            /\ CurHeaders(r)[<<"Service">>] =
                   ServiceValue(ServiceLine) \o <<"SP", "(protocol=http)">>
            /\ r.currentEvent[1].body = currentEvent[1].body
            /\ r.last.cls = "struct"

\* C11 happens: the continuation line was fed to an event in body mode right
\* after the Service line; the header holds both parts and the body is empty.
C11_Witness ==
    /\ currentEvent # <<>>
    /\ last.op = "feed" /\ last.cls = "struct"
    /\ isInBody
    /\ ~prevService
    /\ <<"Service">> \in DOMAIN CurHeaders(State)
    /\ CurHeaders(State)[<<"Service">>] = <<"svc", "SP", "(protocol=http)">>
    /\ currentEvent[1].body = <<>>

\* C12: once done() has returned, feed() is refused whatever the line: no
\* event is under construction after it, no timeout was set and nothing was
\* handed to onEvent.
C12_FeedAfterDoneRejected ==
    last.op = "done" =>
        \A line \in Lines :
            LET r == feed(State, line)
            IN  /\ r.currentEvent = <<>>
                /\ r.timers = timers
                /\ r.delivered = delivered

RECURSIVE JoinNL(_)
\* The lines joined by single newlines.
JoinNL(ls) ==
    IF ls = <<>> THEN <<>>
    ELSE IF Len(ls) = 1 THEN ls[1]
    ELSE ls[1] \o <<"NL">> \o JoinNL(Tail(ls))

\* C13: the body of the event under construction is the lines of its body
\* section as they were fed, in order, joined by single newlines; it is empty
\* when no body line was fed.
C13_BodyIsJoinedLines ==
    currentEvent # <<>> => currentEvent[1].body = JoinNL(bodyLines)

\* C14: right after feed() took a header line, the event under construction
\* has no exchange id, no header and no body, it is not marked emitted, body
\* mode is off, no byte count is expected and none is accumulated.
C14_HeaderResets ==
    (last.op = "feed" /\ last.cls = "header") =>
        /\ currentEvent # <<>>
        /\ currentEvent[1].exchangeId = <<>>
        /\ DOMAIN CurHeaders(State) = {}
        /\ currentEvent[1].body = <<>>
        /\ ~currentEmitted
        /\ ~isInBody
        /\ expectedBodyBytes = -1
        /\ accumulatedBodyBytes = 0

\* C14 happens: a header line was fed while the event before it was in body
\* mode with an expected byte count, had headers and a body and had been
\* delivered by the exact-size trigger.
C14_Witness ==
    /\ last.op = "feed" /\ last.cls = "header"
    /\ gen >= 2
    /\ delivered # <<>>
    /\ delivered[Len(delivered)].via = "exact"
    /\ delivered[Len(delivered)].ev.gen = gen - 1
    /\ delivered[Len(delivered)].ev.body # <<>>

\* C15: at every instant at most one emission timeout, early-completion or
\* body-idle, is pending: setting one cancels those set before it.
C15_AtMostOneTimer ==
    Cardinality(timers) <= 1

\* The Exchange lines of Lines that carry an id.
ExchangeIdLines == {line \in Lines : IsExchangeIdLine(line)}

\* C16: feeding an Exchange line that carries an id to the event under
\* construction hands nothing to onEvent inside that call and records the id;
\* it sets a timeout exactly when the event was not emitted, not in body mode,
\* without expected byte count and with a status starting with Completed or
\* Processed; an event with another status is never delivered by the
\* early-completion timer.
C16_ExchangeLineArms ==
    /\ currentEvent # <<>> =>
           \A line \in ExchangeIdLines :
               LET r == feed(State, line)
               IN  /\ r.delivered = delivered
                   /\ r.currentEvent[1].exchangeId = <<"ID-A">>
                   /\ (r.timers \ timers # {}) <=> ArmsCompletion(State)
                   /\ \A t \in r.timers \ timers : t.kind = "completion"
    /\ \A i \in 1..Len(delivered) :
           delivered[i].via = "completion" => IsTerminalStatus(delivered[i].ev.status)

\* The Body marker lines of Lines.
BodyMarkerLines == {BodyMarker3, BodyMarkerNoBytes}

\* C17: feeding a Body marker to the event under construction leaves no
\* timeout pending, turns body mode on, leaves the body as it was and hands
\* nothing to onEvent; so no timeout can deliver the event before a body line,
\* a header line or done() follows.
C17_BodyMarkerCancels ==
    currentEvent # <<>> =>
        \A line \in BodyMarkerLines :
            LET r == feed(State, line)
            IN  /\ r.last.cls = "marker"
                /\ r.isInBody
                /\ r.currentEvent[1].body = currentEvent[1].body
                /\ r.delivered = delivered
                /\ r.timers = {}
                /\ \A t \in r.timers : fire(r, t).delivered = r.delivered

\* The Service header of the event under construction, empty when absent.
ServiceOf(s) ==
    IF <<"Service">> \in DOMAIN CurHeaders(s) THEN CurHeaders(s)[<<"Service">>]
    ELSE <<>>

\* C18: feeding the bare parenthesised line changes the Service header of
\* the event under construction only when the line fed last went to this
\* same event and was a Service line.
C18_ContinuationOnlyAfterService ==
    currentEvent # <<>> =>
        (ServiceOf(feed(State, ContinuationLine)) # ServiceOf(State) => prevService)

\* The fields of the parser, the pending timeouts, the headers objects and
\* what was handed to onEvent, in state s.
ParserState(s) ==
    [currentEvent |-> s.currentEvent, currentEmitted |-> s.currentEmitted,
     isInBody |-> s.isInBody, lastStructuralKey |-> s.lastStructuralKey,
     expectedBodyBytes |-> s.expectedBodyBytes,
     accumulatedBodyBytes |-> s.accumulatedBodyBytes,
     completionEmitTimer |-> s.completionEmitTimer,
     bodyIdleEmitTimer |-> s.bodyIdleEmitTimer, timers |-> s.timers,
     heap |-> s.heap, delivered |-> s.delivered]

\* The lines of both line sets that are no header lines.
NonHeaderLines == (Lines \cup StructLines) \ {HdrCompleted, HdrCreated}

\* C19: while no event is under construction, feeding a line that is no
\* header line hands nothing to onEvent, sets no timeout and leaves every
\* field of the parser as it was.
C19_InertWithoutEvent ==
    currentEvent = <<>> =>
        \A line \in NonHeaderLines :
            ParserState(feed(State, line)) = ParserState(State)

\* C19 happens: after an event was delivered and done() was called, a line
\* that is no header line was fed while a timeout was still pending.
C19_Witness ==
    /\ last.op = "feed" /\ last.cls = "none"
    /\ currentEvent = <<>>
    /\ dones >= 1
    /\ delivered # <<>>
    /\ timers # {}

\* The line occurs in the body as a run of consecutive tokens.
Occurs(line, body) ==
    \E i \in 1..(Len(body) + 1) :
        /\ i + Len(line) - 1 <= Len(body)
        /\ SubSeq(body, i, i + Len(line) - 1) = line

\* The pending body-idle timeouts.
IdleTimers == {t \in timers : t.kind = "idle"}

\* C20: the body-idle timer is a debounce.  A pending body-idle timeout is
\* always the one set by the latest body line append; an append leaves
\* exactly one pending, set for the current event; and when a body-idle
\* timeout delivers, it is that latest one and the delivered body is the body
\* of the event with every body line fed so far in it.
C20_IdleDebounce ==
    [][/\ \A t \in IdleTimers : t.id = bodyIdleEmitTimer
       /\ (last'.op = "feed" /\ last'.cls = "body") =>
              /\ Cardinality(IdleTimers') = 1
              /\ \A t \in IdleTimers' : t.id = bodyIdleEmitTimer' /\ t.gen = gen'
              /\ bodyIdleEmitTimer' # bodyIdleEmitTimer
       /\ (/\ last'.op = "fire" /\ last'.emitted = 1
           /\ delivered'[Len(delivered')].via = "idle") =>
              /\ timers \ timers' = IdleTimers
              /\ delivered'[Len(delivered')].ev = currentEvent[1]
              /\ \A i \in 1..Len(bodyLines) :
                     Occurs(bodyLines[i], delivered'[Len(delivered')].ev.body)
              /\ Len(bodyLines) >= 1
      ]_vars

\* C20 happens: a body-idle timeout delivered an event whose body holds two
\* lines, so the timeout set by the first line had been cancelled.
C20_Witness ==
    /\ last.op = "fire" /\ last.emitted = 1
    /\ delivered[Len(delivered)].via = "idle"
    /\ Len(bodyLines) >= 2
    /\ delivered[Len(delivered)].ev.body = JoinNL(bodyLines)
    /\ IdleTimers = {}

\* Event g is under construction, has an exchange id, is in body mode and
\* has had a body line appended.
BodyPending(g) ==
    /\ gen = g
    /\ currentEvent # <<>>
    /\ currentEvent[1].exchangeId # <<>>
    /\ isInBody
    /\ bodyLines # <<>>

\* Event g was handed to onEvent.
WasDelivered(g) == \E i \in 1..Len(delivered) : delivered[i].ev.gen = g

\* C21: an event with an exchange id that is in body mode and has had a body
\* line appended is delivered in the end, also when feed() and done() are
\* never called again, provided pending timeouts expire.
C21_BodyPathLive ==
    \A g \in 1..MaxFeeds : BodyPending(g) ~> WasDelivered(g)

\* Event g is under construction with a status starting with Completed or
\* Processed, was fed an Exchange line carrying an id, and no Body marker was
\* fed for it.
EarlyPending(g) ==
    /\ gen = g
    /\ currentEvent # <<>>
    /\ g \in idLines
    /\ IsTerminalStatus(currentEvent[1].status)
    /\ ~isInBody

\* C22: a Completed or Processed event that was fed an Exchange line
\* carrying an id before any Body marker is delivered in the end unless a
\* header line, a Body marker or done() follows, whatever Header and
\* structural lines are fed in the meantime, provided pending timeouts expire.
C22_EarlyCompletionLive ==
    \A g \in 1..MaxFeeds : EarlyPending(g) ~> (WasDelivered(g) \/ ~EarlyPending(g))

\*   Exchange  InOnly | ID-...            (a pipe in front of the id)
ExchangePipeLine ==
    <<"SP", "SP", "Exchange", "SP", "SP", "InOnly", "SP", "|", "SP", "ID-A">>

\* One of the four classifiers of feed matches the line in state s.
ClassifierMatches(s, line) ==
    \/ tryExtractExchangeId(line) # <<>>
    \/ tryExtractHeader(line) # <<>>
    \/ tryExtractStructural(s, line).hit
    \/ tryParseBodyMarker(line) # <<>>

\* The lines C23 is checked with.
ClassifiedLines == Lines \cup StructLines \cup {ExchangePipeLine}

\* C23: while the event under construction is in body mode, feeding a line
\* that one of the classifiers matches leaves the body as it was, does not
\* increase the accumulated byte count and sets no body-idle timeout.
C23_ClassifiedNotInBody ==
    (currentEvent # <<>> /\ isInBody) =>
        \A line \in ClassifiedLines :
            (~headerRegex(preprocess(line)) /\ ClassifierMatches(State, line)) =>
                LET r == feed(State, line)
                IN  /\ r.currentEvent[1].body = currentEvent[1].body
                    /\ r.accumulatedBodyBytes <= accumulatedBodyBytes
                    /\ {t \in r.timers : t.kind = "idle"} \subseteq timers
                    /\ r.last.cls # "body"

\* C24: while the event under construction is in body mode, the accumulated
\* byte count is the UTF-8 byte length of its body.
C24_CounterIsBodyLength ==
    (currentEvent # <<>> /\ isInBody) =>
        accumulatedBodyBytes = SeqBytes(currentEvent[1].body)

\* C25: events are handed to onEvent in the order of their header lines: of
\* two deliveries the later one is of the event whose header line came later.
C25_DeliveryOrder ==
    \A i, j \in 1..Len(delivered) :
        i < j => delivered[i].ev.gen < delivered[j].ev.gen

\* C25 happens: two events were delivered, the first when its successor's
\* header line was fed, the second by a timeout that had been set for the
\* first.
C25_Witness ==
    /\ Len(delivered) >= 2
    /\ delivered[1].via = "flush"
    /\ delivered[2].via = "completion"
    /\ delivered[2].armedFor = delivered[1].ev.gen

\* The text is one logical line: not empty and without a line feed in it.
IsOneLine(text) ==
    /\ text # <<>>
    /\ \A i \in 1..Len(text) : text[i] # "NL"

\* C26: every line the TraceManager fires is one non-empty logical line
\* without a line terminator in it, for stdout and for stderr data.
C26_FiredAreLines ==
    \A i \in 1..Len(fired) : IsOneLine(fired[i])

\* C27: the map holds at most one entry for the integration id, that of the
\* dump process spawned last; a 'close' or 'error' event of another dump
\* process leaves the map and the registered entry as they are.
C27_StaleCloseHarmless ==
    [][/\ Len(integrationIdToProcess') <= 1
       /\ \A i \in 1..Len(integrationIdToProcess') :
              integrationIdToProcess'[i] = Len(dumpProcs')
       /\ (/\ tmLast'.op \in {"close", "error"}
           /\ tmLast' # tmLast
           /\ integrationIdToProcess # <<>>
           /\ integrationIdToProcess[1] # tmLast'.proc) =>
              /\ integrationIdToProcess' = integrationIdToProcess
              /\ entries'[integrationIdToProcess[1]] = entries[integrationIdToProcess[1]]
      ]_vars

\* C27 happens: stop() has killed the first dump process, a start() called
\* after that stop() has registered a second dump process as running, and
\* the 'close' event of the first one has just been handled.
C27_Witness ==
    /\ tmLast = [op |-> "close", proc |-> 1]
    /\ pendingStops = [clean |-> 0, tainted |-> 1]
    /\ pendingStarts = 0
    /\ dumpProcs[1].killed
    /\ integrationIdToProcess = <<2>>
    /\ entries[2].status = "running"
    /\ entries[1].status = "stopped"
    /\ isRunning(TMState)

\* C28: when a stop() call has returned and start() was not called since
\* that stop() was called, no dump process is registered and isRunning is
\* false.
C28_StoppedStaysStopped ==
    quiet => (integrationIdToProcess = <<>> /\ ~isRunning(TMState))
====
